---- MODULE Spec2Model ----
(***************************************************************************)
(* Model of mace/ops/ops_test_util.cc: the operator-definition builder     *)
(* (OpDefBuilder), the process-wide device registry (OpTestContext) and    *)
(* the execution harness (OpsTestNet).                                     *)
(*                                                                         *)
(* The executor (SerialNet), the workspace's PreallocateOutputTensor and   *)
(* the GPU command queue are collaborators outside this file: each call    *)
(* into them returns a status the model draws from the environment.        *)
(* The file is modelled as built with MACE_ENABLE_OPENCL (it constructs a  *)
(* GPUDevice unconditionally at line 130).                                 *)
(***************************************************************************)
EXTENDS Integers, Sequences, FiniteSets, TLC

VARIABLES
  \* ---- OpTestContext (function-local static of OpTestContext::Get) ----
  instance,           \* <<>> before the static is constructed, else <<params>>
  ctor_count,         \* ghost: constructions of [registry, CPU device, GPU device]
  device_map_,        \* device kind -> identity of the device held (0: none)
  opencl_mem_types_,  \* permitted GPU memory layouts
  gpu_mem_type,       \* GPU runtime's active memory type (set_mem_type)
  first_params,       \* ghost: <<params of the first Get call>>
  got,                \* ghost: what Get / GetDevice have returned so far, and the
                      \*        layout setter called last
  \* ---- threads that call OpTestContext::Get ----
  guard,              \* initialization guard of the function-local static
  pc,                 \* thread -> where it is inside Get
  targ,               \* thread -> <<>> or <<parameters it passed to Get>>
  seen,               \* ghost: thread -> <<>> or <<what it found behind the pointer>>
  \* ---- OpsTestNet ----
  ws,                 \* ws_: tensor name -> tensor
  op_defs_,           \* accumulated operator definitions
  net_,               \* <<>> (null) or <<executor>>
  device_type_,       \* device kind recorded by Setup / RunNet
  aborted,            \* a fatal MACE_CHECK has terminated the process
  last_exec,          \* ghost: device kind of the executor whose Run was invoked last
  last,               \* ghost: the last harness call, its result and its event log
  \* ---- OpDefBuilder ----
  b_def,              \* op_def_ of the named builder b
  t_def,              \* <<>> or <<op_def_ of the temporary a by-value return made>>
  chain_on,           \* receiver of the next chained call: "b" or "t"
  b_calls,            \* ghost: calls written in statements that start at b
  b_applied,          \* ghost: calls whose receiver was b
  t_applied,          \* ghost: calls applied to the temporary's lineage
  ctor_args,          \* ghost: the constructor's [type, name]
  dest,               \* <<>> or <<definition written by Finalize>>
  fin                 \* ghost: <<>> or <<the last Finalize: receiver, null?, calls>>

regVars == <<instance, ctor_count, device_map_, opencl_mem_types_, gpu_mem_type,
             first_params, got>>
thrVars == <<guard, pc, targ, seen>>
netVars == <<ws, op_defs_, net_, device_type_, aborted, last_exec, last>>
bldVars == <<b_def, t_def, chain_on, b_calls, b_applied, t_applied, ctor_args,
             dest, fin>>
vars == <<regVars, thrVars, netVars, bldVars>>

-----------------------------------------------------------------------------
(* Values *)

DeviceTypes == {"CPU", "GPU"}
MemoryTypes == {"GPU_IMAGE", "GPU_BUFFER"}

\* MaceStatus values the collaborators return.
PreallocStatus == {"MACE_SUCCESS", "MACE_OUT_OF_RESOURCES"}
InitStatus == {"MACE_SUCCESS", "MACE_INVALID_ARGS"}
RunStatus == {"MACE_SUCCESS", "MACE_INVALID_ARGS", "MACE_OUT_OF_RESOURCES"}

\* Constructor parameters of OpTestContext::Get (num_threads, policy, gemmlowp).
DefaultParams ==
  [num_threads |-> -1, cpu_affinity_policy |-> "AFFINITY_BIG_ONLY", use_gemmlowp |-> TRUE]
OtherParams ==
  [num_threads |-> 4, cpu_affinity_policy |-> "AFFINITY_NONE", use_gemmlowp |-> FALSE]
Params == {DefaultParams, OtherParams}

-----------------------------------------------------------------------------
(* OpTestContext: the device registry *)

\* The registry's fields as one value.
RegNow ==
  [instance |-> instance, ctor_count |-> ctor_count, device_map_ |-> device_map_,
   opencl_mem_types_ |-> opencl_mem_types_, first_params |-> first_params,
   got |-> got]

SetReg(r) ==
  /\ instance' = r.instance
  /\ ctor_count' = r.ctor_count
  /\ device_map_' = r.device_map_
  /\ opencl_mem_types_' = r.opencl_mem_types_
  /\ first_params' = r.first_params
  /\ got' = r.got

\* A constructor whose member initializer for the permitted layouts is
\* missing: the list starts empty.
OpTestContext_ctorNoLayouts(r, p) ==
  [r EXCEPT !.instance = <<p>>,
            !.opencl_mem_types_ = <<>>,
            !.device_map_ = [k \in DeviceTypes |-> r.ctor_count[k] + 1],
            !.ctor_count = [c \in DOMAIN r.ctor_count |-> r.ctor_count[c] + 1]]

\* OpTestContext::OpTestContext: one CPUDevice and one GPUDevice are built and
\* the permitted layouts start as {GPU_IMAGE}.  A device's identity is the
\* serial number of its construction.
OpTestContext_ctor(r, p) ==
  [r EXCEPT !.instance = <<p>>,
            !.opencl_mem_types_ = <<"GPU_IMAGE">>,
            !.device_map_ = [k \in DeviceTypes |-> r.ctor_count[k] + 1],
            !.ctor_count = [c \in DOMAIN r.ctor_count |-> r.ctor_count[c] + 1]]

\* A Get that runs the constructor on every call.
OpTestContext_GetRebuild(r, p) ==
  LET c == OpTestContext_ctor(r, p)
  IN  [c EXCEPT !.first_params = IF r.first_params = <<>> THEN <<p>> ELSE r.first_params,
                !.got = [r.got EXCEPT !.inst = @ \cup {c.ctor_count.registry}]]

\* OpTestContext::Get: `static OpTestContext instance(...)` is constructed by
\* the first call only; every call returns its address.
OpTestContext_Get(r, p) ==
  LET c == IF r.instance = <<>> THEN OpTestContext_ctor(r, p) ELSE r
  IN  [c EXCEPT !.first_params = IF r.first_params = <<>> THEN <<p>> ELSE r.first_params,
                !.got = [r.got EXCEPT !.inst = @ \cup {c.ctor_count.registry}]]

\* OpTestContext::GetDevice on the instance Get returned: device_map_[kind].
OpTestContext_GetDevice(r, kind) == r.device_map_[kind]

\* OpTestContext::Get(), as Setup, RunNet and RunOp call it.
GetDefault(r) == OpTestContext_Get(r, DefaultParams)

Get(p) ==
  /\ ~aborted
  /\ SetReg(OpTestContext_Get(RegNow, p))
  /\ UNCHANGED <<thrVars, gpu_mem_type, netVars, bldVars>>

GetDevice(p, kind) ==
  /\ ~aborted
  /\ LET r == OpTestContext_Get(RegNow, p)
     IN  SetReg([r EXCEPT !.got = [r.got EXCEPT ![kind] =
                                     @ \cup {OpTestContext_GetDevice(r, kind)}]])
  /\ UNCHANGED <<thrVars, gpu_mem_type, netVars, bldVars>>

SetOCLBufferTestFlag ==
  /\ ~aborted
  /\ SetReg([OpTestContext_Get(RegNow, DefaultParams)
               EXCEPT !.opencl_mem_types_ = <<"GPU_BUFFER">>,
                      !.got.setter = "SetOCLBufferTestFlag"])
  /\ UNCHANGED <<thrVars, gpu_mem_type, netVars, bldVars>>

SetOCLImageTestFlag ==
  /\ ~aborted
  /\ SetReg([OpTestContext_Get(RegNow, DefaultParams)
               EXCEPT !.opencl_mem_types_ = <<"GPU_IMAGE">>,
                      !.got.setter = "SetOCLImageTestFlag"])
  /\ UNCHANGED <<thrVars, gpu_mem_type, netVars, bldVars>>

SetOCLImageAndBufferTestFlag ==
  /\ ~aborted
  /\ SetReg([OpTestContext_Get(RegNow, DefaultParams)
               EXCEPT !.opencl_mem_types_ = <<"GPU_IMAGE", "GPU_BUFFER">>,
                      !.got.setter = "SetOCLImageAndBufferTestFlag"])
  /\ UNCHANGED <<thrVars, gpu_mem_type, netVars, bldVars>>

-----------------------------------------------------------------------------
(* OpTestContext::Get called from several threads *)

MaxThreads == 3
Threads == 1..MaxThreads

\* A static whose initialization is not guarded against concurrent entry: a
\* thread constructs unless the construction has completed.
StaticGuardUnsafe(g) == IF g = "done" THEN "construct_not" ELSE "construct"

\* `static OpTestContext instance(...)`, line 114: initialization of a
\* function-local static.  The thread that finds it uninitialized constructs
\* it; a thread that enters while it is being constructed waits for the
\* completion; afterwards the declaration is skipped.
StaticGuard(g) ==
  CASE g = "uninit" -> "construct"
    [] g = "in_progress" -> "wait"
    [] g = "done" -> "construct_not"

\* Thread t calls Get(p) and reaches the declaration of the static.  The
\* thread that constructs runs the member initializers (lines 123-124) here.
ThreadGetEnter(t, p) ==
  /\ pc[t] = "idle"
  /\ targ' = [targ EXCEPT ![t] = <<p>>]
  /\ \E d \in {StaticGuard(guard)} :
       IF d = "construct"
       THEN /\ guard' = "in_progress"
            /\ pc' = [pc EXCEPT ![t] = "ctor_cpu"]
            /\ opencl_mem_types_' = <<"GPU_IMAGE">>
            /\ ctor_count' = [ctor_count EXCEPT !.registry = @ + 1]
       ELSE /\ pc' = [pc EXCEPT ![t] = IF d = "wait" THEN "wait" ELSE "ret_found"]
            /\ UNCHANGED <<guard, opencl_mem_types_, ctor_count>>
  /\ UNCHANGED <<instance, device_map_, gpu_mem_type, first_params, got, seen,
                 netVars, bldVars>>

\* The constructing thread executes lines 125-128: the CPU device.
ThreadCtorCPU(t) ==
  /\ pc[t] = "ctor_cpu"
  /\ device_map_' = [device_map_ EXCEPT !.CPU = ctor_count.CPU + 1]
  /\ ctor_count' = [ctor_count EXCEPT !.CPU = @ + 1]
  /\ pc' = [pc EXCEPT ![t] = "ctor_gpu"]
  /\ UNCHANGED <<instance, opencl_mem_types_, gpu_mem_type, first_params, got,
                 guard, targ, seen, netVars, bldVars>>

\* The constructing thread executes lines 130-133, the GPU device, and the
\* constructor returns: the initialization of the static is complete.
ThreadCtorGPU(t) ==
  /\ pc[t] = "ctor_gpu"
  /\ device_map_' = [device_map_ EXCEPT !.GPU = ctor_count.GPU + 1]
  /\ ctor_count' = [ctor_count EXCEPT !.GPU = @ + 1]
  /\ instance' = targ[t]
  /\ guard' = "done"
  /\ pc' = [pc EXCEPT ![t] = "ret_built"]
  /\ UNCHANGED <<opencl_mem_types_, gpu_mem_type, first_params, got, targ, seen,
                 netVars, bldVars>>

\* A thread that waited at the declaration goes on once the initialization
\* is complete.
ThreadGetWake(t) ==
  /\ pc[t] = "wait"
  /\ guard = "done"
  /\ pc' = [pc EXCEPT ![t] = "ret_waited"]
  /\ UNCHANGED <<regVars, guard, targ, seen, netVars, bldVars>>

\* `return &instance;`, line 117: the caller has the pointer; the ghost keeps
\* what is behind it at that moment and how the thread passed the declaration.
ThreadGetReturn(t) ==
  /\ pc[t] \in {"ret_built", "ret_waited", "ret_found"}
  /\ seen' = [seen EXCEPT ![t] =
               <<[inst |-> ctor_count.registry,
                  CPU |-> OpTestContext_GetDevice(RegNow, "CPU"),
                  GPU |-> OpTestContext_GetDevice(RegNow, "GPU"),
                  how |-> pc[t]]>>]
  /\ pc' = [pc EXCEPT ![t] = "idle"]
  /\ UNCHANGED <<regVars, guard, targ, netVars, bldVars>>

-----------------------------------------------------------------------------
(* OpsTestNet: values *)

InShape == <<1>>
OutShape == <<2, 3>>

\* The tensors a test may put into the workspace before a run.
Inputs ==
  { [name |-> "a", shape |-> InShape, is_weight |-> FALSE],
    [name |-> "b", shape |-> InShape, is_weight |-> FALSE],
    [name |-> "b", shape |-> InShape, is_weight |-> TRUE] }

OpDef(type, name, input, output, output_type) ==
  [type |-> type, name |-> name, input |-> input, output |-> output,
   output_type |-> output_type, output_shape |-> <<>>, arg |-> <<>>]

\* The operator lists a test may have accumulated before it runs the harness:
\* one operator, a two-operator chain whose second operator writes one of
\* its own inputs and declares more output types than outputs, and an
\* operator that declares fewer output types than outputs.
OpDefLists ==
  { <<OpDef("AddN", "addn", <<"a", "b">>, <<"c">>, <<>>)>>,
    <<OpDef("Cast", "cast", <<"a">>, <<"c">>, <<"DT_INT32">>),
      OpDef("Add", "add", <<"c", "b">>, <<"b">>, <<"DT_INT32", "DT_INT32">>)>>,
    <<OpDef("Split", "split", <<"a">>, <<"c", "a">>, <<"DT_INT32">>)>> }

\* The graphs a test may hand to RunNet.
RunNetGraphs ==
  { [op |-> <<OpDef("AddN", "addn", <<"a", "b">>, <<"c">>, <<>>)>>,
     input_info |-> <<>>, output_info |-> <<>>] }

RECURSIVE OutputNames(_)
\* The output names of a list of operators, in operator and output order.
OutputNames(ops) ==
  IF ops = <<>> THEN <<>> ELSE Head(ops).output \o OutputNames(Tail(ops))

Range(s) == { s[i] : i \in DOMAIN s }

\* One step of a harness call: what was invoked, on what, the status it
\* returned, whether the executor was initialized and the active memory type.
Event(ev, arg, status, inited, mem) ==
  [ev |-> ev, arg |-> arg, status |-> status, ok |-> status = "MACE_SUCCESS",
   inited |-> inited, mem |-> mem]

\* The harness's fields, with the GPU runtime's memory type and the ghost
\* record of the call in progress, as one value.
HNow ==
  [ws |-> ws, net_ |-> net_, device_type_ |-> device_type_, mem |-> gpu_mem_type,
   aborted |-> aborted, last_exec |-> last_exec, log |-> <<>>, stale |-> {}]

Ok(status) == status = "MACE_SUCCESS"

-----------------------------------------------------------------------------
(* OpsTestNet::Setup *)

\* A RemoveTensor that leaves the workspace as it is.
RemoveTensorSkip(w, name) == w

\* ws_.RemoveTensor(name), line 178: afterwards the name has no tensor.
RemoveTensor(w, name) == [n \in DOMAIN w \ {name} |-> w[n]]

RECURSIVE InputInfosWithWeights(_, _, _)
\* An input loop that records an InputInfo for weight tensors as well.
InputInfosWithWeights(inputs, w, acc) ==
  IF inputs = <<>> THEN acc
  ELSE LET n == Head(inputs)
       IN  InputInfosWithWeights(Tail(inputs), w,
             IF n \in DOMAIN w
             THEN Append(acc, [name |-> n, dims |-> w[n].shape])
             ELSE acc)

RECURSIVE InputInfos(_, _, _)
\* Setup, lines 165-175: one InputInfo per input name that has a non-weight
\* tensor in the workspace, with that tensor's shape.
InputInfos(inputs, w, acc) ==
  IF inputs = <<>> THEN acc
  ELSE LET n == Head(inputs)
       IN  InputInfos(Tail(inputs), w,
             IF n \in DOMAIN w /\ ~w[n].is_weight
             THEN Append(acc, [name |-> n, dims |-> w[n].shape])
             ELSE acc)

RECURSIVE OutputLoopDeclaredIfAny(_, _, _)
\* An output loop that takes the i-th declared type whenever there is one.
OutputLoopDeclaredIfAny(op, i, st) ==
  IF i > Len(op.output) THEN st
  ELSE OutputLoopDeclaredIfAny(op, i + 1,
         [ws |-> RemoveTensor(st.ws, op.output[i]),
          output_info |-> Append(st.output_info,
             [name |-> op.output[i],
              data_type |-> IF i <= Len(op.output_type)
                            THEN op.output_type[i] ELSE "DT_FLOAT"])])

RECURSIVE OutputLoop(_, _, _)
\* Setup, lines 177-186: for output i, remove the tensor of that name and
\* record an OutputInfo.  st = [ws, output_info].
OutputLoop(op, i, st) ==
  IF i > Len(op.output) THEN st
  ELSE OutputLoop(op, i + 1,
         [ws |-> RemoveTensor(st.ws, op.output[i]),
          output_info |-> Append(st.output_info,
             [name |-> op.output[i],
              data_type |-> IF Len(op.output_type) = Len(op.output)
                            THEN op.output_type[i] ELSE "DT_FLOAT"])])

RECURSIVE BuildNetDef(_, _)
\* Setup, lines 161-187.  st = [ws, net_def]; the result holds the workspace
\* after the removals and the finished net_def.
BuildNetDef(ops, st) ==
  IF ops = <<>> THEN st
  ELSE LET op == Head(ops)
           infos == InputInfos(op.input, st.ws, st.net_def.input_info)
           o == OutputLoop(op, 1, [ws |-> st.ws, output_info |-> st.net_def.output_info])
       IN  BuildNetDef(Tail(ops),
             [ws |-> o.ws,
              net_def |-> [op |-> Append(st.net_def.op, op),
                           input_info |-> infos,
                           output_info |-> o.output_info]])

EmptyNetDef == [op |-> <<>>, input_info |-> <<>>, output_info |-> <<>>]

\* new SerialNet(op_registry_, &net_def, &ws_, device, &mem_optimizer)
SerialNet(net_def, device) ==
  [device |-> device, outputs |-> OutputNames(net_def.op), inited |-> "no"]

\* The executor is constructed: record it and the output names that still
\* have a tensor in the workspace at that moment.
Construct(h, net_def, device) ==
  [h EXCEPT !.net_ = <<SerialNet(net_def, device)>>,
            !.stale = @ \cup (Range(OutputNames(net_def.op)) \cap DOMAIN h.ws),
            !.log = Append(@, Event("SerialNet", device, "MACE_SUCCESS", FALSE, h.mem))]

\* Setup, line 199, with the early return left out.
PreallocFailedIgnored(status) == FALSE

\* Setup, line 199: `if (status != MACE_SUCCESS) return false;`
PreallocFailed(status) == status # "MACE_SUCCESS"

\* net_->Init() returned `status`.
NetInit(h, status) ==
  [h EXCEPT !.net_ = <<[h.net_[1] EXCEPT !.inited = IF Ok(status) THEN "ok" ELSE "failed"]>>,
            !.log = Append(@, Event("Init", h.net_[1].device, status, Ok(status), h.mem))]

\* OpsTestNet::Setup(device) with the statuses PreallocateOutputTensor and
\* Init return.  The result is [h, ret].
SetupF(h, ops, device, pre, init) ==
  LET b == BuildNetDef(ops, [ws |-> h.ws, net_def |-> EmptyNetDef])
      h1 == Construct([h EXCEPT !.ws = b.ws], b.net_def, device)
      h2 == [h1 EXCEPT !.log = Append(@, Event("PreallocateOutputTensor", device,
                                               pre, FALSE, h.mem))]
  IN  IF PreallocFailed(pre) THEN [h |-> h2, ret |-> FALSE, net_def |-> b.net_def]
      ELSE [h |-> [NetInit(h2, init) EXCEPT !.device_type_ = device],
            ret |-> Ok(init), net_def |-> b.net_def]

-----------------------------------------------------------------------------
(* OpsTestNet::Run, Sync, RunOp, RunNet *)

\* net_->Run() returned `status`: a successful run leaves every output of the
\* executor's graph in the workspace as a non-weight tensor.
NetRun(h, status) ==
  LET e == h.net_[1]
      outs == Range(e.outputs)
  IN  [h EXCEPT !.last_exec = e.device,
                !.ws = IF Ok(status)
                       THEN [n \in DOMAIN h.ws \cup outs |->
                               IF n \in outs THEN [shape |-> OutShape, is_weight |-> FALSE]
                               ELSE h.ws[n]]
                       ELSE @,
                !.log = Append(@, Event("Run", e.device, status, e.inited = "ok", h.mem))]

\* Sync was entered: the call itself is a step of the log.
SyncCalled(h) ==
  [h EXCEPT !.log = Append(@, Event("Sync", h.device_type_, "MACE_SUCCESS", FALSE, h.mem))]

\* A Sync that waits whenever an executor exists.
SyncFAnyDevice(h) ==
  IF h.net_ # <<>>
  THEN [SyncCalled(h) EXCEPT
          !.log = Append(@, Event("finish", "GPU", "MACE_SUCCESS", FALSE, h.mem))]
  ELSE SyncCalled(h)

\* OpsTestNet::Sync: command_queue().finish() when an executor exists and the
\* recorded device kind is GPU.
SyncF(h) ==
  IF h.net_ # <<>> /\ h.device_type_ = "GPU"
  THEN [SyncCalled(h) EXCEPT
          !.log = Append(@, Event("finish", "GPU", "MACE_SUCCESS", FALSE, h.mem))]
  ELSE SyncCalled(h)

\* A Run that synchronizes whatever net_->Run() returned.
RunFSyncAlways(h, run) ==
  IF h.net_ = <<>>
  THEN [h |-> [h EXCEPT !.aborted = TRUE,
                        !.log = Append(@, Event("MACE_CHECK", "net_", "ABORT", FALSE, h.mem))],
        ret |-> "ABORT"]
  ELSE [h |-> SyncF(NetRun(h, run)), ret |-> run]

\* OpsTestNet::Run with the status net_->Run() returns.  The result is [h, ret].
RunF(h, run) ==
  IF h.net_ = <<>>
  THEN [h |-> [h EXCEPT !.aborted = TRUE,
                        !.log = Append(@, Event("MACE_CHECK", "net_", "ABORT", FALSE, h.mem))],
        ret |-> "ABORT"]
  ELSE LET h1 == NetRun(h, run)
       IN  IF ~Ok(run) THEN [h |-> h1, ret |-> run]
           ELSE [h |-> SyncF(h1), ret |-> "MACE_SUCCESS"]

\* What one Setup/Run cycle of RunOp draws from the collaborators.  Init is
\* not reached when preallocation fails, so its entry is fixed there.
Outcomes ==
  { o \in [pre : PreallocStatus, init : InitStatus, run : InitStatus] :
      ~Ok(o.pre) => Ok(o.init) }

\* What Setup draws: the statuses of PreallocateOutputTensor and Init.
SetupOutcomes ==
  { o \in [pre : PreallocStatus, init : InitStatus] : ~Ok(o.pre) => Ok(o.init) }

\* What RunNet draws: a stage after the first failing one is not reached.
RunNetOutcomes ==
  { o \in [pre : PreallocStatus, init : InitStatus, run : RunStatus] :
      /\ ~Ok(o.pre) => Ok(o.init) /\ Ok(o.run)
      /\ ~Ok(o.init) => Ok(o.run) }

RECURSIVE RunOpLoop(_, _, _, _, _)
\* RunOp, lines 215-221: the loop over the copied layout list, from index i.
RunOpLoop(h, ops, types, outs, i) ==
  IF i > Len(types) THEN [h |-> h, ret |-> "MACE_SUCCESS"]
  ELSE LET h0 == [h EXCEPT !.mem = types[i],
                           !.log = Append(@, Event("set_mem_type", types[i], "MACE_SUCCESS", FALSE, types[i]))]
           s == SetupF(h0, ops, "GPU", outs[i].pre, outs[i].init)
           r == RunF(s.h, outs[i].run)
       IN  IF ~Ok(r.ret) THEN r
           ELSE RunOpLoop(r.h, ops, types, outs, i + 1)

\* OpsTestNet::RunOp(device); `types` is the list opencl_mem_types() returned.
RunOpF(h, ops, device, types, outs) ==
  IF device = "GPU" THEN RunOpLoop(h, ops, types, outs, 1)
  ELSE RunF(SetupF(h, ops, device, outs[1].pre, outs[1].init).h, outs[1].run)

\* A RunNet that goes on to Init and Run whatever preallocation returned.
RunNetFNoEarlyReturn(h, net_def, device, pre, init, run) ==
  LET h1 == Construct([h EXCEPT !.device_type_ = device], net_def, device)
      h2 == [h1 EXCEPT !.log = Append(@, Event("PreallocateOutputTensor", device,
                                               pre, FALSE, h.mem))]
      h3 == NetInit(h2, init)
  IN  IF ~Ok(init) THEN [h |-> h3, ret |-> init]
      ELSE [h |-> NetRun(h3, run), ret |-> run]

\* OpsTestNet::RunNet(net_def, device) with the statuses of its three stages.
RunNetF(h, net_def, device, pre, init, run) ==
  LET h1 == Construct([h EXCEPT !.device_type_ = device], net_def, device)
      h2 == [h1 EXCEPT !.log = Append(@, Event("PreallocateOutputTensor", device,
                                               pre, FALSE, h.mem))]
      h3 == NetInit(h2, init)
  IN  IF ~Ok(pre) THEN [h |-> h2, ret |-> pre]
      ELSE IF ~Ok(init) THEN [h |-> h3, ret |-> init]
      ELSE [h |-> NetRun(h3, run), ret |-> run]

-----------------------------------------------------------------------------
(* OpsTestNet: the calls a test makes *)

\* The harness after a call: its fields from h, and the ghost record of the
\* call; `built` is <<>> or, for Setup, the workspace before the call (ws0)
\* and when the graph was finished (ws1), the graph, and PrevSetup.
SetH(h, op, dev, ret, had, types, same, built) ==
  /\ ws' = h.ws
  /\ net_' = h.net_
  /\ device_type_' = h.device_type_
  /\ gpu_mem_type' = h.mem
  /\ aborted' = h.aborted
  /\ last_exec' = h.last_exec
  /\ last' = [op |-> op, dev |-> dev, ret |-> ret, log |-> h.log, stale |-> h.stale,
              had |-> had, types |-> types, same |-> same, built |-> built]

HadOutputs(ops) == Range(OutputNames(ops)) \cap DOMAIN ws

\* A test puts an input or weight tensor into the workspace.
AddInput(t) ==
  /\ ~aborted
  /\ ws' = [n \in DOMAIN ws \cup {t.name} |->
              IF n = t.name THEN [shape |-> t.shape, is_weight |-> t.is_weight]
              ELSE ws[n]]
  /\ UNCHANGED <<thrVars, regVars, op_defs_, net_, device_type_, aborted, last_exec, last, bldVars>>

\* Ghost: the graph the call before built, when that call was Setup(device)
\* and the test has not changed the workspace since it returned.
PrevSetup(device) ==
  IF last.op = "Setup" /\ last.dev = device /\ last.built[1].ws1 = ws
  THEN <<last.built[1].net_def>>
  ELSE <<>>

Setup(device) ==
  /\ ~aborted
  /\ \E o \in SetupOutcomes :
       \E s \in {SetupF(HNow, op_defs_, device, o.pre, o.init)} :
           SetH(s.h, "Setup", device, IF s.ret THEN "true" ELSE "false",
                HadOutputs(op_defs_), <<>>, FALSE,
                <<[ws0 |-> ws, ws1 |-> s.h.ws, net_def |-> s.net_def,
                   prev |-> PrevSetup(device)]>>)
  /\ SetReg(GetDefault(RegNow))
  /\ UNCHANGED <<thrVars, op_defs_, bldVars>>

Run ==
  /\ ~aborted
  /\ \E run \in RunStatus :
       \E r \in {RunF(HNow, run)} :
           SetH(r.h, "Run", IF net_ = <<>> THEN "" ELSE net_[1].device, r.ret, {}, <<>>, FALSE, <<>>)
  /\ UNCHANGED <<thrVars, instance, ctor_count, device_map_, opencl_mem_types_, first_params, got,
                 op_defs_, bldVars>>

RunOp(device) ==
  /\ ~aborted
  /\ LET reg == GetDefault(RegNow)
         types == IF device = "GPU" THEN reg.opencl_mem_types_ ELSE <<>>
         n == IF device = "GPU" THEN Len(types) ELSE 1
     IN  /\ SetReg(reg)
         /\ \E outs \in [1..n -> Outcomes] :
              \E r \in {RunOpF(HNow, op_defs_, device, types, outs)} :
                  SetH(r.h, "RunOp", device, r.ret, HadOutputs(op_defs_), types, FALSE, <<>>)
  /\ UNCHANGED <<thrVars, op_defs_, bldVars>>

\* OpsTestNet::RunOp(): RunOp(DeviceType::CPU).
RunOpDefault == RunOp("CPU")

RunNet(net_def, device) ==
  /\ ~aborted
  /\ \E o \in RunNetOutcomes :
       \E r \in {RunNetF(HNow, net_def, device, o.pre, o.init, o.run)} :
           SetH(r.h, "RunNet", device, r.ret, HadOutputs(net_def.op), <<>>, FALSE, <<>>)
  /\ SetReg(GetDefault(RegNow))
  /\ UNCHANGED <<thrVars, op_defs_, bldVars>>

Sync ==
  /\ ~aborted
  /\ \E h \in {SyncF(HNow)} :
         SetH(h, "Sync", "", "", {}, <<>>,
              h.ws = ws /\ h.net_ = net_ /\ h.device_type_ = device_type_, <<>>)
  /\ UNCHANGED <<thrVars, instance, ctor_count, device_map_, opencl_mem_types_, first_params, got,
                 op_defs_, bldVars>>

-----------------------------------------------------------------------------
(* Specification of the registry and the harness *)

InitReg ==
  /\ instance = <<>>
  /\ ctor_count = [registry |-> 0, CPU |-> 0, GPU |-> 0]
  /\ device_map_ = [k \in DeviceTypes |-> 0]
  /\ opencl_mem_types_ = <<>>
  /\ gpu_mem_type = "UNSET"
  /\ first_params = <<>>
  /\ got = [inst |-> {}, CPU |-> {}, GPU |-> {}, setter |-> "none"]

\* A fresh OpsTestNet whose operator list the test has filled; device_type_
\* has no initializer in this file, so it starts with either value.
InitNet ==
  /\ ws = <<>>
  /\ op_defs_ \in OpDefLists
  /\ net_ = <<>>
  /\ device_type_ \in DeviceTypes
  /\ aborted = FALSE
  /\ last_exec = "none"
  /\ last = [op |-> "none", dev |-> "", ret |-> "", log |-> <<>>, stale |-> {},
             had |-> {}, types |-> <<>>, same |-> FALSE, built |-> <<>>]

InitBld ==
  /\ b_def = <<>>
  /\ t_def = <<>>
  /\ chain_on = "b"
  /\ b_calls = <<>>
  /\ b_applied = <<>>
  /\ t_applied = <<>>
  /\ ctor_args = <<>>
  /\ dest = <<>>
  /\ fin = <<>>

\* No thread is inside Get and the static is not initialized.
InitThr ==
  /\ guard = "uninit"
  /\ pc = [t \in Threads |-> "idle"]
  /\ targ = [t \in Threads |-> <<>>]
  /\ seen = [t \in Threads |-> <<>>]

Init == InitReg /\ InitThr /\ InitNet /\ InitBld

\* Threads of one process that call Get, any number of times each.
NextThreads ==
  \/ \E t \in Threads, p \in Params : ThreadGetEnter(t, p)
  \/ \E t \in Threads : ThreadCtorCPU(t)
  \/ \E t \in Threads : ThreadCtorGPU(t)
  \/ \E t \in Threads : ThreadGetWake(t)
  \/ \E t \in Threads : ThreadGetReturn(t)

\* No OpsTestNet is in use while the threads run: its fields are idle.
InitThreads ==
  /\ Init
  /\ op_defs_ = <<OpDef("AddN", "addn", <<"a", "b">>, <<"c">>, <<>>)>>
  /\ device_type_ = "CPU"

SpecThreads == InitThreads /\ [][NextThreads]_vars

\* The registry on its own, with the harness calls that reach it through Setup.
NextReg ==
  \/ \E p \in Params : Get(p)
  \/ \E p \in Params, kind \in DeviceTypes : GetDevice(p, kind)
  \/ SetOCLBufferTestFlag
  \/ SetOCLImageTestFlag
  \/ SetOCLImageAndBufferTestFlag
  \/ \E device \in DeviceTypes : Setup(device)

SpecReg == Init /\ [][NextReg]_vars

Next ==
  \/ SetOCLBufferTestFlag
  \/ SetOCLImageTestFlag
  \/ SetOCLImageAndBufferTestFlag
  \/ \E t \in Inputs : AddInput(t)
  \/ \E device \in DeviceTypes : Setup(device)
  \/ Run
  \/ \E device \in DeviceTypes : RunOp(device)
  \/ RunOpDefault
  \/ \E nd \in RunNetGraphs, device \in DeviceTypes : RunNet(nd, device)
  \/ Sync

Spec == Init /\ [][Next]_vars

-----------------------------------------------------------------------------
(* Reading the event log of the last harness call *)

Log == last.log

IsEv(i, ev) == Log[i].ev = ev

\* Event i is a failed step of Setup: preallocation or Init returned an error.
SetupFailedAt(i) ==
  (IsEv(i, "PreallocateOutputTensor") \/ IsEv(i, "Init")) /\ ~Log[i].ok

\* Event i is a failed step of a Setup/Run cycle.
CycleFailedAt(i) == SetupFailedAt(i) \/ (IsEv(i, "Run") /\ ~Log[i].ok)

\* The number of the RunOp(GPU) cycle event i belongs to.
CycleOf(i) == Cardinality({ j \in 1..i : IsEv(j, "set_mem_type") })

EventsOf(ev) == SelectSeq(Log, LAMBDA e : e.ev = ev)

-----------------------------------------------------------------------------
(* Claims about RunOp, Run, RunNet, Sync and Setup *)

\* C1 (as claimed): once a Setup step of RunOp has failed (preallocation or
\* Init), the executor's Run is not invoked later in that call, no later
\* layout is tried, and RunOp returns a non-success status.
C1_SetupFailureEndsRunOp ==
  last.op = "RunOp" =>
    \A i \in DOMAIN Log :
      SetupFailedAt(i) =>
        /\ \A j \in DOMAIN Log : j > i => ~IsEv(j, "Run") /\ ~IsEv(j, "set_mem_type")
        /\ ~Ok(last.ret)

\* C2 (as claimed): under the "both" policy RunOp(GPU) runs one Setup+Run
\* cycle per permitted layout, in list order and with that layout active; it
\* stops at the first cycle with a failing step and returns a failure, and it
\* returns success only after every layout's cycle succeeded.
C2_OneCyclePerLayout ==
  (last.op = "RunOp" /\ last.dev = "GPU" /\ last.types = <<"GPU_IMAGE", "GPU_BUFFER">>) =>
    LET sets == EventsOf("set_mem_type")
        runs == EventsOf("Run")
        failed == { CycleOf(i) : i \in { j \in DOMAIN Log : CycleFailedAt(j) } }
    IN  /\ Len(sets) <= Len(last.types)
        /\ \A k \in DOMAIN sets : sets[k].arg = last.types[k]
        /\ Len(runs) = Len(sets)
        /\ \A k \in DOMAIN runs : runs[k].mem = last.types[k]
        /\ failed # {} => (\A k \in failed : Len(sets) <= k) /\ ~Ok(last.ret)
        /\ Ok(last.ret) => failed = {} /\ Len(sets) = Len(last.types)

\* C3 (as claimed): in Setup, RunOp and RunNet alike, no output name of the
\* executed graph still has a tensor in the workspace when the executor of the
\* new pass is constructed.
C3_OutputsRemovedInEveryRun ==
  last.op \in {"Setup", "RunOp", "RunNet"} => last.stale = {}

\* C3 (amended): in every pass that goes through Setup (Setup itself and each
\* cycle of RunOp), no output name of the accumulated operators still has a
\* tensor in the workspace when the executor is constructed.
C3_OutputsRemovedBySetup ==
  last.op \in {"Setup", "RunOp"} => last.stale = {}

\* A Setup or RunOp that found a tensor under an output name and removed it.
C3_Witness ==
  last.op \in {"Setup", "RunOp"} /\ last.had # {} /\ last.stale = {}

\* C7 (as claimed): whenever Run (directly or from RunOp) invokes the
\* executor's run, that executor's Init was called and returned success.
C7_RunOnlyInitialized ==
  last.op \in {"Run", "RunOp"} =>
    \A i \in DOMAIN Log : IsEv(i, "Run") => Log[i].inited

\* C8 (as claimed): when Run, RunOp or RunNet returns success, every run of a
\* GPU executor in that call was followed, before the return, by a wait on the
\* GPU command queue.
C8_SuccessMeansGpuWaited ==
  (last.op \in {"Run", "RunOp", "RunNet"} /\ Ok(last.ret)) =>
    \A i \in DOMAIN Log :
      (IsEv(i, "Run") /\ Log[i].arg = "GPU") =>
        \E j \in DOMAIN Log : j > i /\ IsEv(j, "finish")

\* C9 (as claimed): Sync waits on the GPU command queue exactly when the
\* executor that ran last is a GPU executor (not after a CPU run, not when
\* nothing has run), and it changes neither workspace, executor nor device kind.
C9_SyncIffLastRunOnGpu ==
  last.op = "Sync" =>
    /\ (EventsOf("finish") # <<>>) <=> (last_exec = "GPU")
    /\ last.same

\* C9 (amended): Sync waits on the GPU command queue exactly when an executor
\* exists and the device kind recorded by the last Setup that got past
\* preallocation, or by the last RunNet, is GPU; it changes neither workspace,
\* executor nor recorded device kind.
C9_SyncIffRecordedGpu ==
  last.op = "Sync" =>
    /\ (EventsOf("finish") # <<>>) <=> (net_ # <<>> /\ device_type_ = "GPU")
    /\ last.same

\* A Sync that waited although no executor has run yet.
C9_Witness ==
  last.op = "Sync" /\ EventsOf("finish") # <<>> /\ last_exec = "none" /\ net_ # <<>>

\* C10: Setup returns true exactly when preallocation succeeded and Init was
\* then invoked and succeeded; after a failed preallocation Init is not
\* invoked; Setup returns a boolean and never aborts.
C10_SetupResult ==
  last.op = "Setup" =>
    LET pre == EventsOf("PreallocateOutputTensor")
        inits == EventsOf("Init")
    IN  /\ Len(pre) = 1
        /\ last.ret \in {"true", "false"}
        /\ (last.ret = "true") <=> (pre[1].ok /\ Len(inits) = 1 /\ inits[1].ok)
        /\ ~pre[1].ok => inits = <<>>
        /\ pre[1].ok => Len(inits) = 1
        /\ ~aborted

\* A Setup whose preallocation failed: it returned false without invoking Init.
C10_Witness ==
  /\ last.op = "Setup"
  /\ \E i \in DOMAIN Log : IsEv(i, "PreallocateOutputTensor") /\ ~Log[i].ok
  /\ last.ret = "false"

\* The stage events of the last call: preallocation, Init and Run.
Stages ==
  SelectSeq(Log, LAMBDA e : e.ev \in {"PreallocateOutputTensor", "Init", "Run"})

\* C11: RunNet constructs a fresh executor and then performs preallocation,
\* Init and Run in that order on it, stopping at the first stage that fails
\* and returning that stage's status unchanged: no Init or Run after a failed
\* preallocation, no Run after a failed Init, success only when all three
\* stages succeeded.
C11_RunNetStages ==
  last.op = "RunNet" =>
    LET n == Len(Stages)
        order == <<"PreallocateOutputTensor", "Init", "Run">>
    IN  /\ Log # <<>> /\ IsEv(1, "SerialNet") /\ Log[1].arg = last.dev
        /\ \A i \in 2..Len(Log) : ~IsEv(i, "SerialNet")
        /\ n \in 1..3
        /\ \A k \in 1..n : Stages[k].ev = order[k] /\ Stages[k].arg = last.dev
        /\ \A k \in 1..(n - 1) : Stages[k].ok
        /\ n < 3 => ~Stages[n].ok
        /\ last.ret = Stages[n].status
        /\ Ok(last.ret) <=> (n = 3 /\ \A k \in 1..3 : Stages[k].ok)
        /\ ~aborted

\* C12: Run on a harness that has an executor invokes the executor's run
\* exactly once; when that returns a failure Run returns the same status and
\* performs no synchronization (no Sync, no wait); when it returns success
\* Run performs Sync exactly once, after the run, and returns success.  With
\* no executor Run aborts and invokes nothing.
C12_RunThenSync ==
  last.op = "Run" =>
    LET runs == EventsOf("Run")
        syncs == EventsOf("Sync")
    IN  IF last.ret = "ABORT"
        THEN aborted /\ runs = <<>> /\ syncs = <<>> /\ EventsOf("finish") = <<>>
        ELSE /\ Len(runs) = 1 /\ IsEv(1, "Run")
             /\ last.ret = runs[1].status
             /\ ~runs[1].ok => Len(Log) = 1
             /\ runs[1].ok =>
                  /\ Len(syncs) = 1 /\ IsEv(2, "Sync")
                  /\ \A i \in 3..Len(Log) : IsEv(i, "finish")
                  /\ Len(EventsOf("finish")) <= 1
             /\ ~aborted

\* A successful Run on a GPU executor: run, then Sync, which waited.
C12_Witness ==
  /\ last.op = "Run" /\ Ok(last.ret)
  /\ Len(Log) = 3 /\ IsEv(1, "Run") /\ IsEv(2, "Sync") /\ IsEv(3, "finish")

\* A RunNet whose Init failed: it returned Init's status and did not run.
C11_Witness ==
  /\ last.op = "RunNet"
  /\ Len(Stages) = 2 /\ Stages[2].ev = "Init" /\ Stages[2].status = "MACE_INVALID_ARGS"
  /\ last.ret = "MACE_INVALID_ARGS"

\* C18 (as claimed): after every Setup and RunNet, successful or failed, the
\* recorded device kind is the device kind of the current executor; and a
\* successful Run of an executor bound to GPU has waited on the GPU command
\* queue, after the run, when it returns.
C18_RecordedDeviceIsExecutors ==
  /\ (last.op \in {"Setup", "RunNet"} /\ net_ # <<>>) => device_type_ = net_[1].device
  /\ (last.op = "Run" /\ Ok(last.ret) /\ last.dev = "GPU") =>
       \E i, j \in DOMAIN Log : i < j /\ IsEv(i, "Run") /\ IsEv(j, "finish")

-----------------------------------------------------------------------------
(* Claims about the graph definition Setup builds *)

\* The ghost record of the last call, when it was a Setup.
Built == last.built[1]

\* C13 (as claimed): a Setup(device) that directly follows a Setup(device),
\* with no workspace change by the test in between, builds the same graph
\* definition as the first: same operators, same InputInfo entries with the
\* same shapes, same OutputInfo entries.
C13_SetupIdempotent ==
  (last.op = "Setup" /\ Built.prev # <<>>) => Built.net_def = Built.prev[1]

RECURSIVE InputRefs(_, _)
\* Every (operator index, input name) of the operators from index k on, in
\* operator and input order.
InputRefs(ops, k) ==
  IF k > Len(ops) THEN <<>>
  ELSE [i \in DOMAIN ops[k].input |-> [k |-> k, name |-> ops[k].input[i]]]
       \o InputRefs(ops, k + 1)

\* The output names of the operators before index k.
EarlierOutputs(ops, k) == UNION { Range(ops[j].output) : j \in 1..(k - 1) }

\* Name n had a non-weight tensor when Setup was called.
HadInput(n) == n \in DOMAIN Built.ws0 /\ ~Built.ws0[n].is_weight

\* The InputInfo entries for the given input references, with the shapes the
\* tensors had when Setup was called.
InfosFor(refs) ==
  [i \in DOMAIN refs |-> [name |-> refs[i].name, dims |-> Built.ws0[refs[i].name].shape]]

\* C14 (as claimed): the graph Setup builds has an InputInfo, with the
\* tensor's shape, for exactly the operator inputs whose name had a
\* non-weight tensor in the workspace when Setup was called.
C14_InputInfoForPresentAtCall ==
  last.op = "Setup" =>
    Built.net_def.input_info =
      InfosFor(SelectSeq(InputRefs(op_defs_, 1), LAMBDA r : HadInput(r.name)))

\* C14 (amended): the graph Setup builds has an InputInfo, with the tensor's
\* shape, for exactly the operator inputs whose name had a non-weight tensor
\* in the workspace when Setup was called and is not an output name of an
\* operator earlier in the list (whose tensor Setup has removed by then).
C14_InputInfoForPresentAtTurn ==
  last.op = "Setup" =>
    Built.net_def.input_info =
      InfosFor(SelectSeq(InputRefs(op_defs_, 1),
                         LAMBDA r : HadInput(r.name)
                                    /\ r.name \notin EarlierOutputs(op_defs_, r.k)))

\* A Setup of the two-operator chain with the intermediate tensor c left by
\* an earlier run: InputInfo entries were recorded, none of them for c.
C14_Witness ==
  /\ last.op = "Setup"
  /\ Len(op_defs_) = 2
  /\ HadInput("c") /\ Built.ws0["c"].shape = OutShape
  /\ Built.net_def.input_info # <<>>
  /\ \A i \in DOMAIN Built.net_def.input_info : Built.net_def.input_info[i].name # "c"

RECURSIVE OutputRefs(_, _)
\* Every (operator index, output index) of the operators from index k on, in
\* operator and output order.
OutputRefs(ops, k) ==
  IF k > Len(ops) THEN <<>>
  ELSE [i \in DOMAIN ops[k].output |-> [k |-> k, i |-> i]] \o OutputRefs(ops, k + 1)

\* C15: the graph Setup builds has exactly one OutputInfo per operator
\* output, in operator and output order, named after that output; its data
\* type is the operator's declared type of the same index when the operator
\* declares as many types as it has outputs, and DT_FLOAT when it declares
\* fewer, more or none.
C15_OutputInfoTypes ==
  last.op = "Setup" =>
    LET refs == OutputRefs(op_defs_, 1)
        infos == Built.net_def.output_info
    IN  /\ Len(infos) = Len(refs)
        /\ \A j \in DOMAIN refs :
             LET op == op_defs_[refs[j].k]
                 i == refs[j].i
             IN  /\ infos[j].name = op.output[i]
                 /\ Len(op.output_type) = Len(op.output) =>
                      infos[j].data_type = op.output_type[i]
                 /\ Len(op.output_type) # Len(op.output) =>
                      infos[j].data_type = "DT_FLOAT"

\* A Setup of the chain: Cast declares one type for its one output, Add two
\* types for its one output.
C15_Witness ==
  /\ last.op = "Setup"
  /\ Built.net_def.output_info =
       <<[name |-> "c", data_type |-> "DT_INT32"], [name |-> "b", data_type |-> "DT_FLOAT"]>>

\* C19 (as claimed): when Setup has finished the graph definition, every
\* InputInfo in it names a tensor that is still in the workspace, as a
\* non-weight tensor of the recorded shape.
C19_InputInfoTensorsKept ==
  last.op = "Setup" =>
    \A i \in DOMAIN Built.net_def.input_info :
      LET info == Built.net_def.input_info[i]
      IN  /\ info.name \in DOMAIN Built.ws1
          /\ Built.ws1[info.name].shape = info.dims
          /\ ~Built.ws1[info.name].is_weight

-----------------------------------------------------------------------------
(* Claims about the registry *)

\* C4: once Get has been called, exactly one registry, one CPU device and one
\* GPU device have been constructed, with the first call's parameters; Get has
\* only ever returned that instance and GetDevice only ever that kind's one
\* device.
C4_Singleton ==
  /\ got.inst = {} => ctor_count = [registry |-> 0, CPU |-> 0, GPU |-> 0]
  /\ got.inst # {} =>
       /\ ctor_count = [registry |-> 1, CPU |-> 1, GPU |-> 1]
       /\ instance = first_params
       /\ got.inst = {1}
  /\ \A k \in DeviceTypes : got[k] \subseteq {device_map_[k]} /\ 0 \notin got[k]

\* The registry was built by a first Get with non-default parameters, a later
\* Get() with the defaults has come from Setup, and both devices were handed out.
C4_Witness ==
  /\ instance = <<OtherParams>>
  /\ net_ # <<>>
  /\ got.CPU = {1} /\ got.GPU = {1}

\* C16: whatever the interleaving of the threads' Get calls and their
\* parameters, the registry constructor runs at most once (one CPU device, one
\* GPU device), at most one thread is ever inside it, and every thread that
\* has received the pointer received the one instance with both of its devices
\* constructed.
C16_ThreadSafeGet ==
  /\ \A c \in DOMAIN ctor_count : ctor_count[c] <= 1
  /\ Cardinality({ t \in Threads : pc[t] \in {"ctor_cpu", "ctor_gpu"} }) <= 1
  /\ \A t \in Threads :
       /\ pc[t] \in {"ret_built", "ret_waited", "ret_found"} =>
            guard = "done" /\ device_map_ = [k \in DeviceTypes |-> 1]
       /\ seen[t] # <<>> =>
            seen[t][1].inst = 1 /\ seen[t][1].CPU = 1 /\ seen[t][1].GPU = 1

\* Two threads have the pointer: one waited at the declaration while another
\* thread, which had passed other parameters, was constructing the registry.
C16_Witness ==
  \E t, u \in Threads :
    /\ seen[t] # <<>> /\ seen[t][1].how = "ret_waited"
    /\ seen[u] # <<>> /\ seen[u][1].how = "ret_built"
    /\ targ[t] # targ[u]

\* The three values the setters and the constructor give the list.
LayoutLists == { <<"GPU_IMAGE">>, <<"GPU_BUFFER">>, <<"GPU_IMAGE", "GPU_BUFFER">> }

\* C20: once the registry exists, its list of permitted layouts is one of
\* [image], [buffer], [image, buffer]: [image] until a setter is called, then
\* the value of the setter called last; it is never empty and holds no layout
\* twice.  A RunOp(GPU) performs at least one and at most two Setup/Run
\* cycles, for the leading layouts of the list it read when it was called.
C20_LayoutList ==
  /\ instance # <<>> =>
       /\ opencl_mem_types_ \in LayoutLists
       /\ opencl_mem_types_ # <<>>
       /\ \A i, j \in DOMAIN opencl_mem_types_ :
            i # j => opencl_mem_types_[i] # opencl_mem_types_[j]
       /\ opencl_mem_types_ =
            CASE got.setter = "none" -> <<"GPU_IMAGE">>
              [] got.setter = "SetOCLBufferTestFlag" -> <<"GPU_BUFFER">>
              [] got.setter = "SetOCLImageTestFlag" -> <<"GPU_IMAGE">>
              [] got.setter = "SetOCLImageAndBufferTestFlag" -> <<"GPU_IMAGE", "GPU_BUFFER">>
  /\ (last.op = "RunOp" /\ last.dev = "GPU") =>
       LET sets == EventsOf("set_mem_type")
       IN  /\ last.types \in LayoutLists
           /\ Len(sets) \in 1..2
           /\ Len(sets) <= Len(last.types)
           /\ \A k \in DOMAIN sets : sets[k].arg = last.types[k]
           /\ Len(EventsOf("SerialNet")) = Len(sets)
           /\ Len(EventsOf("Run")) = Len(sets)

\* A RunOp(GPU) after the "both" setter that went through two cycles, and a
\* later setter call has since made the list [buffer].
C20_Witness ==
  /\ last.op = "RunOp" /\ last.dev = "GPU"
  /\ last.types = <<"GPU_IMAGE", "GPU_BUFFER">>
  /\ Len(EventsOf("set_mem_type")) = 2
  /\ got.setter = "SetOCLBufferTestFlag"
  /\ opencl_mem_types_ = <<"GPU_BUFFER">>

-----------------------------------------------------------------------------
(* OpDefBuilder *)

MaxCalls == 3

\* OpDefBuilder::OpDefBuilder(type, name)
NewOpDef(type, name) == OpDef(type, name, <<>>, <<>>, <<>>)

\* An Argument with one value field set.
Argument(name, field, val) ==
  [[name |-> name, i |-> <<>>, f |-> <<>>, s |-> <<>>, ints |-> <<>>, floats |-> <<>>]
     EXCEPT ![field] = val]

Input(def, input_name) == [def EXCEPT !.input = Append(@, input_name)]

Output(def, output_name) == [def EXCEPT !.output = Append(@, output_name)]

OutputType(def, output_type) == [def EXCEPT !.output_type = @ \o output_type]

OutputShape(def, output_shape) ==
  [def EXCEPT !.output_shape = Append(@, [dims |-> output_shape])]

\* An AddIntArg that replaces an attribute of the same name instead of adding one.
AddIntArgOverwrite(def, name, value) ==
  IF \E k \in DOMAIN def.arg : def.arg[k].name = name
  THEN [def EXCEPT !.arg = [k \in DOMAIN def.arg |->
                              IF def.arg[k].name = name
                              THEN Argument(name, "i", <<value>>) ELSE def.arg[k]]]
  ELSE [def EXCEPT !.arg = Append(@, Argument(name, "i", <<value>>))]

AddIntArg(def, name, value) ==
  [def EXCEPT !.arg = Append(@, Argument(name, "i", <<value>>))]

AddFloatArg(def, name, value) ==
  [def EXCEPT !.arg = Append(@, Argument(name, "f", <<value>>))]

AddStringArg(def, name, value) ==
  [def EXCEPT !.arg = Append(@, Argument(name, "s", <<value>>))]

AddIntsArg(def, name, values) ==
  [def EXCEPT !.arg = Append(@, Argument(name, "ints", values))]

AddFloatsArg(def, name, values) ==
  [def EXCEPT !.arg = Append(@, Argument(name, "floats", values))]

\* The methods declared to return OpDefBuilder by value (lines 55, 62, 70, 78
\* and 88); Input, Output, OutputType and OutputShape return OpDefBuilder&.
ReturnsCopy(op) ==
  op \in {"AddIntArg", "AddFloatArg", "AddStringArg", "AddIntsArg", "AddFloatsArg"}

\* The calls a test may make; numbers are written as strings.
BuilderCalls ==
  { [op |-> "Input", name |-> n, val |-> <<>>] : n \in {"a", "b"} }
  \cup { [op |-> "Output", name |-> "c", val |-> <<>>] }
  \cup { [op |-> "OutputType", name |-> "", val |-> <<"DT_INT32", "DT_FLOAT">>] }
  \cup { [op |-> "OutputShape", name |-> "", val |-> <<"1", "2">>] }
  \cup { [op |-> "AddIntArg", name |-> "x", val |-> <<v>>] : v \in {"1", "2"} }
  \cup { [op |-> "AddFloatArg", name |-> "x", val |-> <<"0.5">>],
         [op |-> "AddStringArg", name |-> "y", val |-> <<"NHWC">>],
         [op |-> "AddIntsArg", name |-> "y", val |-> <<"1", "2">>],
         [op |-> "AddFloatsArg", name |-> "x", val |-> <<"0.5", "1.5">>] }

\* The effect of call c on the op_def_ of its receiver.
Apply(def, c) ==
  CASE c.op = "Input" -> Input(def, c.name)
    [] c.op = "Output" -> Output(def, c.name)
    [] c.op = "OutputType" -> OutputType(def, c.val)
    [] c.op = "OutputShape" -> OutputShape(def, c.val)
    [] c.op = "AddIntArg" -> AddIntArg(def, c.name, c.val[1])
    [] c.op = "AddFloatArg" -> AddFloatArg(def, c.name, c.val[1])
    [] c.op = "AddStringArg" -> AddStringArg(def, c.name, c.val[1])
    [] c.op = "AddIntsArg" -> AddIntsArg(def, c.name, c.val)
    [] c.op = "AddFloatsArg" -> AddFloatsArg(def, c.name, c.val)

\* OpDefBuilder b(type, name);
OpDefBuilderCtor(type, name) ==
  /\ ~aborted
  /\ b_def = <<>>
  /\ b_def' = <<NewOpDef(type, name)>>
  /\ ctor_args' = <<[type |-> type, name |-> name]>>
  /\ UNCHANGED <<thrVars, t_def, chain_on, b_calls, b_applied, t_applied, dest, fin,
                 regVars, netVars>>

\* One method call of an expression that starts at b: the first call of a
\* statement has b as its receiver, a later one has what the call before it
\* returned: the same object after a by-reference return, a temporary copy
\* after a by-value return.
Call(c) ==
  /\ ~aborted
  /\ b_def # <<>>
  /\ Len(b_calls) < MaxCalls
  /\ b_calls' = Append(b_calls, c)
  /\ IF chain_on = "b"
     THEN /\ b_def' = <<Apply(b_def[1], c)>>
          /\ b_applied' = Append(b_applied, c)
          /\ IF ReturnsCopy(c.op)
             THEN /\ t_def' = <<Apply(b_def[1], c)>>
                  /\ t_applied' = Append(b_applied, c)
                  /\ chain_on' = "t"
             ELSE UNCHANGED <<t_def, t_applied, chain_on>>
     ELSE /\ t_def' = <<Apply(t_def[1], c)>>
          /\ t_applied' = Append(t_applied, c)
          /\ UNCHANGED <<b_def, b_applied, chain_on>>
  /\ UNCHANGED <<thrVars, ctor_args, dest, fin, regVars, netVars>>

\* The end of a statement whose value is discarded: the temporary is destroyed.
EndStatement ==
  /\ ~aborted
  /\ chain_on = "t"
  /\ chain_on' = "b"
  /\ t_def' = <<>>
  /\ t_applied' = <<>>
  /\ UNCHANGED <<thrVars, b_def, b_calls, b_applied, ctor_args, dest, fin, regVars, netVars>>

\* A Finalize without MACE_CHECK: a null destination is silently ignored.
FinalizeUnchecked(null) ==
  /\ ~aborted
  /\ b_def # <<>>
  /\ LET recv == IF chain_on = "b" THEN b_def[1] ELSE t_def[1]
         applied == IF chain_on = "b" THEN b_applied ELSE t_applied
     IN  /\ fin' = <<[on |-> chain_on, null |-> null, applied |-> applied,
                      calls |-> b_calls]>>
         /\ dest' = IF null THEN dest ELSE <<recv>>
  /\ chain_on' = "b"
  /\ t_def' = <<>>
  /\ t_applied' = <<>>
  /\ UNCHANGED <<thrVars, b_def, b_calls, b_applied, ctor_args, regVars, netVars>>

\* OpDefBuilder::Finalize(op_def) on the current receiver, ending the statement.
Finalize(null) ==
  /\ ~aborted
  /\ b_def # <<>>
  /\ LET recv == IF chain_on = "b" THEN b_def[1] ELSE t_def[1]
         applied == IF chain_on = "b" THEN b_applied ELSE t_applied
     IN  /\ fin' = <<[on |-> chain_on, null |-> null, applied |-> applied,
                      calls |-> b_calls]>>
         /\ IF null
            THEN aborted' = TRUE /\ UNCHANGED dest
            ELSE dest' = <<recv>> /\ UNCHANGED aborted
  /\ chain_on' = "b"
  /\ t_def' = <<>>
  /\ t_applied' = <<>>
  /\ UNCHANGED <<thrVars, b_def, b_calls, b_applied, ctor_args, regVars,
                 ws, op_defs_, net_, device_type_, last_exec, last>>

NextBuilder ==
  \/ \E a \in {<<"AddN", "op1">>, <<"Conv2D", "op2">>} : OpDefBuilderCtor(a[1], a[2])
  \/ \E c \in BuilderCalls : Call(c)
  \/ EndStatement
  \/ \E null \in BOOLEAN : Finalize(null)

\* The builder on its own: no OpsTestNet is in use, its fields are idle.
InitBuilder ==
  /\ InitReg
  /\ InitThr
  /\ InitBld
  /\ InitNet
  /\ op_defs_ = <<OpDef("AddN", "addn", <<"a", "b">>, <<"c">>, <<>>)>>
  /\ device_type_ = "CPU"

SpecBuilder == InitBuilder /\ [][NextBuilder]_vars

-----------------------------------------------------------------------------
(* Claims about the builder *)

RECURSIVE Flatten(_)
Flatten(ss) == IF ss = <<>> THEN <<>> ELSE Head(ss) \o Flatten(Tail(ss))

CallsOf(cs, ops) == SelectSeq(cs, LAMBDA c : c.op \in ops)

FieldOf(op) ==
  CASE op = "AddIntArg" -> "i"
    [] op = "AddFloatArg" -> "f"
    [] op = "AddStringArg" -> "s"
    [] op = "AddIntsArg" -> "ints"
    [] op = "AddFloatsArg" -> "floats"

AddArgOps == {"AddIntArg", "AddFloatArg", "AddStringArg", "AddIntsArg", "AddFloatsArg"}

\* Definition d holds exactly what the calls cs contribute, in call order.
Matches(d, cs) ==
  LET ins == CallsOf(cs, {"Input"})
      outs == CallsOf(cs, {"Output"})
      types == CallsOf(cs, {"OutputType"})
      shapes == CallsOf(cs, {"OutputShape"})
      args == CallsOf(cs, AddArgOps)
  IN  /\ d.type = ctor_args[1].type
      /\ d.name = ctor_args[1].name
      /\ d.input = [k \in DOMAIN ins |-> ins[k].name]
      /\ d.output = [k \in DOMAIN outs |-> outs[k].name]
      /\ d.output_type = Flatten([k \in DOMAIN types |-> types[k].val])
      /\ Len(d.output_shape) = Len(shapes)
      /\ \A k \in DOMAIN shapes : d.output_shape[k].dims = shapes[k].val
      /\ Len(d.arg) = Len(args)
      /\ \A k \in DOMAIN args :
           /\ d.arg[k].name = args[k].name
           /\ \A fld \in {"i", "f", "s", "ints", "floats"} :
                d.arg[k][fld] = IF fld = FieldOf(args[k].op) THEN args[k].val ELSE <<>>

C6_ChainMutatesBuilder ==
  (fin # <<>> /\ ~fin[1].null /\ fin[1].on = "b") => Matches(dest[1], fin[1].calls)

\* C17: a Finalize with a null destination ends in the fatal abort and
\* leaves every destination as it was; a Finalize with a destination writes
\* the receiver's definition there and does not abort; no Finalize changes
\* the definition the builder has accumulated.
C17_FinalizeNullAborts ==
  [][fin' # fin =>
       /\ b_def' = b_def
       /\ IF fin'[1].null
          THEN aborted' /\ dest' = dest
          ELSE ~aborted' /\ dest' = <<IF chain_on = "b" THEN b_def[1] ELSE t_def[1]>>]_vars

\* A Finalize with a null destination after one that wrote a definition: the
\* process has aborted, the definition written before is as it was and the
\* builder still holds what it had accumulated.
C17_Witness ==
  /\ fin # <<>> /\ fin[1].null
  /\ aborted
  /\ dest # <<>> /\ dest[1] = b_def[1]
  /\ b_calls # <<>>

====
